---- MODULE Spec2Model ----
(***************************************************************************)
(* A model of src/lib/github.ts: the process-wide LRU cache and rate       *)
(* limiter, the paginated repository lister getAllRepositories and the     *)
(* aggregation routine getGitHubStats.                                      *)
(*                                                                         *)
(* Every action is one macrotask of the event loop: the arrival of the     *)
(* response (or of the timer) an invocation is awaiting, followed by all   *)
(* the synchronous code up to the next await.                              *)
(***************************************************************************)
EXTENDS Integers, Sequences, FiniteSets, TLC

\* ------------------------------------------------------------------ bounds
\* Number of invocations of getGitHubStats the model follows.
NumCalls == 2
\* Number of callers contending for the rate limiter while the API is down.
NumCallers == 3
\* Number of times the wall clock advances.
MaxTicks == 2
\* Longest repository list SpecRepos draws.
MaxRepos == 3
\* Longest contribution calendar SpecDays draws.
MaxDays == 8
\* Largest number of nodes the API puts on one page of the listing.
MaxPage == 2

\* ------------------------------------------------------- program constants
\* const cache = new LRUCache({ max: 100, ttl: 1000 * 60 * 5 })
CacheMax == 100
CacheTTL == 1000 * 60 * 5
\* rateLimiter.minInterval
minInterval == 1000

\* ------------------------------------------------------------ value domains
\* The three falsy arguments of getGitHubStats: "", undefined and null.
FalsyTokens == {"", "<undefined>", "<null>"}
ValidTokens == {"tokA", "tokB"}
AccessTokens == FalsyTokens \cup ValidTokens

\* A primaryLanguage of null (or with an empty name) is written "".
NoLanguage == ""
Languages == {"Go", "TS"}

\* repo.defaultBranchRef as the API returns it: null, a ref without a target,
\* a target without a history (not a Commit), or a history with a totalCount.
CommitCounts == 0..2
Branches ==
    [kind : {"noRef", "noTarget", "noHistory"}, totalCount : {0}]
        \cup [kind : {"history"}, totalCount : CommitCounts]

\* contributionCount of one day of the calendar.
DayCounts == 0..2

daysOrder ==
    <<"Monday", "Tuesday", "Wednesday", "Thursday", "Friday", "Saturday", "Sunday">>

\* The process's time zone: east of (or at) UTC, or west of it.
TimeZones == {"east", "west"}

\* -------------------------------------------------------------- JS helpers
\* x?.a?.b?.totalCount : undefined unless every link of the chain is present.
OptTotalCount(repo) ==
    IF repo.defaultBranchRef.kind = "history"
    THEN [undef |-> FALSE, v |-> repo.defaultBranchRef.totalCount]
    ELSE [undef |-> TRUE, v |-> 0]

\* (x || 0) for x a number or undefined.
OrZero(x) == IF x.undef \/ x.v = 0 THEN 0 ELSE x.v

\* Variant: the commits comparator also puts an equal element first.
BeforeOrEqual(a, b, by) ==
    IF by = "commits"
    THEN b.commits <= a.commits
    ELSE /\ ~a.percentage.nan
         /\ ~b.percentage.nan
         /\ b.percentage.num * a.percentage.den < a.percentage.num * b.percentage.den

\* The two comparators handed to Array.prototype.sort, as "comparator(a, b) < 0":
\* (a, b) => b.commits - a.commits and (a, b) => b.percentage - a.percentage.
\* A difference that is NaN is not below zero.
Before(a, b, by) ==
    IF by = "commits"
    THEN b.commits < a.commits
    ELSE /\ ~a.percentage.nan
         /\ ~b.percentage.nan
         /\ b.percentage.num * a.percentage.den < a.percentage.num * b.percentage.den

\* Array.prototype.sort is stable: x goes after every element it does not
\* strictly precede.
RECURSIVE InsertSorted(_, _, _)
InsertSorted(x, s, by) ==
    IF s = <<>> THEN <<x>>
    ELSE IF Before(x, Head(s), by) THEN <<x>> \o s
    ELSE <<Head(s)>> \o InsertSorted(x, Tail(s), by)

RECURSIVE StableSort(_, _)
StableSort(s, by) ==
    IF s = <<>> THEN <<>>
    ELSE InsertSorted(s[Len(s)], StableSort(SubSeq(s, 1, Len(s) - 1), by), by)

RECURSIVE SumSeq(_)
SumSeq(s) == IF s = <<>> THEN 0 ELSE Head(s) + SumSeq(Tail(s))

\* ------------------------------------------------- contribution calendar
\* new Date("YYYY-MM-DD") is UTC midnight of day number `date` (days since
\* 1970-01-01, a Thursday); toLocaleDateString formats it in the process's
\* time zone, where west of UTC it is still the evening of the day before.
WeekdayName(date, tz) ==
    LET localDay == IF tz = "west" THEN date - 1 ELSE date
    IN daysOrder[((localDay + 3) % 7) + 1]

\* dailyContributions[dayKey] = (dailyContributions[dayKey] || 0) + count
AddDaily(daily, dayKey, count) ==
    IF dayKey \in DOMAIN daily
    THEN [daily EXCEPT ![dayKey] = @ + count]
    ELSE daily @@ (dayKey :> count)

\* The two forEach loops over weeks and contributionDays.
RECURSIVE ProcessCalendar(_, _, _)
ProcessCalendar(days, tz, acc) ==
    IF days = <<>> THEN acc
    ELSE LET day == Head(days)
             next ==
                 IF day.contributionCount > 0
                 THEN [dailyContributions |->
                           AddDaily(acc.dailyContributions,
                                    WeekdayName(day.date, tz),
                                    day.contributionCount),
                       activeDaysSet |-> acc.activeDaysSet \cup {day.date}]
                 ELSE acc
         IN ProcessCalendar(Tail(days), tz, next)

EmptyDaily == [dailyContributions |-> <<>>, activeDaysSet |-> {}]

\* Variant: the buckets are the entries of dailyContributions alone.
RECURSIVE DaysPresent(_, _)
DaysPresent(daily, i) ==
    IF i > Len(daysOrder) THEN <<>>
    ELSE (IF daysOrder[i] \in DOMAIN daily
          THEN <<[day |-> daysOrder[i], count |-> daily[daysOrder[i]]]>>
          ELSE <<>>) \o DaysPresent(daily, i + 1)

ContributionsByDayOfEntries(daily) == DaysPresent(daily, 1)

\* daysOrder.map(day => ({ day, count: dailyContributions[day] || 0 }))
ContributionsByDay(daily) ==
    [i \in 1..Len(daysOrder) |->
        [day |-> daysOrder[i],
         count |-> IF daysOrder[i] \in DOMAIN daily THEN daily[daysOrder[i]] ELSE 0]]

\* ------------------------------------------------------------ repositories
\* Variant: contributions is left at 0.
RepoStatNoContributions(repo) ==
    [name |-> repo.nameWithOwner,
     commits |-> IF repo.defaultBranchRef.kind = "history"
                 THEN repo.defaultBranchRef.totalCount ELSE 0,
     language |-> repo.primaryLanguage,
     contributions |-> 0,
     isPrivate |-> repo.isPrivate]

\* allRepositories.map(repo => ({ name, commits, ..., contributions, isPrivate }))
RepoStat(repo) ==
    [name |-> repo.nameWithOwner,
     commits |-> OrZero(OptTotalCount(repo)),
     language |-> repo.primaryLanguage,
     contributions |-> OrZero(OptTotalCount(repo)),
     isPrivate |-> repo.isPrivate]

\* Variant: only the public repositories are kept.
RepoStatsPublicOnly(allRepositories) ==
    LET IsPublic(repo) == ~repo.isPrivate
        public == SelectSeq(allRepositories, IsPublic)
    IN [i \in 1..Len(public) |-> RepoStat(public[i])]

\* const repoStats = allRepositories.map(...)
RepoStats(allRepositories) ==
    [i \in 1..Len(allRepositories) |-> RepoStat(allRepositories[i])]

\* languageStats, as the list of its entries in insertion order.
RECURSIVE AddLanguage(_, _, _)
AddLanguage(stats, name, commits) ==
    IF stats = <<>> THEN <<[name |-> name, count |-> commits]>>
    ELSE IF Head(stats).name = name
         THEN <<[name |-> name, count |-> Head(stats).count + commits]>> \o Tail(stats)
         ELSE <<Head(stats)>> \o AddLanguage(Tail(stats), name, commits)

RECURSIVE LanguageStats(_, _)
LanguageStats(repoStats, acc) ==
    IF repoStats = <<>> THEN acc
    ELSE LET repo == Head(repoStats)
         IN LanguageStats(Tail(repoStats),
                          IF repo.language # NoLanguage
                          THEN AddLanguage(acc, repo.language, repo.commits)
                          ELSE acc)

TotalLanguageCommits(languageStats) ==
    SumSeq([i \in 1..Len(languageStats) |-> languageStats[i].count])

\* (count / totalLanguageCommits) * 100 as the exact fraction num / den;
\* 0 / 0 is NaN.
Percentage(count, totalLanguageCommits) ==
    IF totalLanguageCommits = 0
    THEN [nan |-> TRUE, num |-> 0, den |-> 1]
    ELSE [nan |-> FALSE, num |-> count * 100, den |-> totalLanguageCommits]

LanguageList(repoStats) ==
    LET languageStats == LanguageStats(repoStats, <<>>)
        total == TotalLanguageCommits(languageStats)
    IN StableSort([i \in 1..Len(languageStats) |->
                      [name |-> languageStats[i].name,
                       percentage |-> Percentage(languageStats[i].count, total)]],
                  "percentage")

\* repoStats.sort((a, b) => b.commits - a.commits)
SortedRepos(repoStats) == StableSort(repoStats, "commits")

\* ------------------------------------------------------------------ report
NoReport == [kind |-> "none"]

\* const result = { repos, totalCommits, ..., languages, user: { login, avatarUrl } }
BuildReport(user, allRepositories, tz, login, avatarUrl) ==
    LET daily == ProcessCalendar(user.days, tz, EmptyDaily)
        repoStats == RepoStats(allRepositories)
        allRepoContributions == user.totalCommitContributions
        totalComments == user.totalIssueContributions
        totalReviews == user.totalPullRequestReviewContributions
    IN [kind |-> "report",
        repos |-> SortedRepos(repoStats),
        totalCommits |-> allRepoContributions,
        totalComments |-> totalComments,
        totalReviews |-> totalReviews,
        totalRepos |-> Len(repoStats),
        activeDays |-> Cardinality(daily.activeDaysSet),
        contributionsByDay |-> ContributionsByDay(daily.dailyContributions),
        contributionsByType |->
            <<[type |-> "Commits", count |-> allRepoContributions],
              [type |-> "Comments", count |-> totalComments],
              [type |-> "Reviews", count |-> totalReviews]>>,
        languages |-> LanguageList(repoStats),
        user |-> [login |-> login, avatarUrl |-> avatarUrl]]

\* ------------------------------------------------------------------- cache
\* The LRUCache, as its entries from least to most recently used. `start` is
\* the instant of the set; `by` names the invocation that made it.
\* Variant: one key for every credential.
cacheKeyShared(accessToken) == <<"stats-", "">>
\* `stats-${accessToken}`
cacheKey(accessToken) == <<"stats-", accessToken>>

HasKey(c, key) == \E i \in 1..Len(c) : c[i].key = key
KeyIndex(c, key) == CHOOSE i \in 1..Len(c) : c[i].key = key
RemoveAt(c, i) == SubSeq(c, 1, i - 1) \o SubSeq(c, i + 1, Len(c))

\* Variant: a ttl of 60 * 5, as if it were given in seconds.
IsStaleTtlInSeconds(entry, t) == t - entry.start > 60 * 5
\* An entry is stale once its age exceeds the ttl.
IsStale(entry, t) == t - entry.start > CacheTTL

\* cache.get(key): absent for a missing or a stale key (the stale entry is
\* deleted); a fresh entry becomes the most recently used.
CacheGet(c, key, t) ==
    IF ~HasKey(c, key)
    THEN [found |-> FALSE, value |-> NoReport, cache |-> c]
    ELSE LET i == KeyIndex(c, key)
         IN IF IsStale(c[i], t)
            THEN [found |-> FALSE, value |-> NoReport, cache |-> RemoveAt(c, i)]
            ELSE [found |-> TRUE, value |-> c[i].value,
                  cache |-> RemoveAt(c, i) \o <<c[i]>>]

\* Variant: a key that has an entry keeps it.
CacheSetIfAbsent(c, key, value, t, p) ==
    IF HasKey(c, key) THEN c
    ELSE c \o <<[key |-> key, value |-> value, start |-> t, by |-> p]>>

\* cache.set(key, value): replaces the key's entry, or adds one, evicting the
\* least recently used entry when the cache is full.
CacheSet(c, key, value, t, p) ==
    LET entry == [key |-> key, value |-> value, start |-> t, by |-> p]
    IN IF HasKey(c, key)
       THEN RemoveAt(c, KeyIndex(c, key)) \o <<entry>>
       ELSE IF Len(c) >= CacheMax
            THEN Tail(c) \o <<entry>>
            ELSE c \o <<entry>>

\* ------------------------------------------------------------------- state
Procs == 1..(IF NumCallers > NumCalls THEN NumCallers ELSE NumCalls)

VARIABLES
    now,        \* Date.now(), in ms
    ticks,      \* how many times the clock has advanced
    tz,         \* the process's time zone
    remote,     \* what the remote API holds for each credential
    cache,      \* the LRUCache
    lastCall,   \* rateLimiter.lastCall
    called,     \* how many invocations of getGitHubStats have begun
    inv,        \* each invocation's position and locals
    lastIssued  \* the instant of the latest remote call, 0 before the first

vars == <<now, ticks, tz, remote, cache, lastCall, called, inv, lastIssued>>

\* The clock advances by half the rate limiter's interval, or by the ttl.
TickMs == minInterval \div 2

NoUser ==
    [totalCommitContributions |-> 0, totalIssueContributions |-> 0,
     totalPullRequestReviewContributions |-> 0, days |-> <<>>]

\* An invocation before it is called. nRemote counts the remote calls it has
\* issued, cacheReads and cacheWrites its calls of cache.get and cache.set,
\* startedAt is the instant of its first remote call.
NewInvocation ==
    [pc |-> "idle", accessToken |-> "", wakeAt |-> 0, hit |-> FALSE,
     user |-> NoUser, queryLogin |-> "", login |-> "", resultLogin |-> "",
     repositories |-> <<>>, cursor |-> 0, hasNextPage |-> TRUE,
     result |-> NoReport, error |-> "",
     calledAt |-> 0, startedAt |-> 0, nRemote |-> 0,
     cacheReads |-> 0, cacheWrites |-> 0]

AwaitingRemote == {"auth1", "contrib", "auth2", "page", "auth3", "auth4"}

\* An invocation that has returned or thrown: its locals are gone; what it
\* was called with, what it gave back and what it did remain.
Finished(rec, pc, result, error) ==
    [NewInvocation EXCEPT
        !.pc = pc, !.result = result, !.error = error,
        !.accessToken = rec.accessToken, !.hit = rec.hit,
        !.calledAt = rec.calledAt, !.startedAt = rec.startedAt,
        !.nRemote = rec.nRemote, !.cacheReads = rec.cacheReads,
        !.cacheWrites = rec.cacheWrites]

\* ------------------------------------------------------------ remote data
Repo(name, kind, totalCount, language, isPrivate) ==
    [nameWithOwner |-> name, isPrivate |-> isPrivate, primaryLanguage |-> language,
     defaultBranchRef |-> [kind |-> kind, totalCount |-> totalCount]]

Day(date, count) == [date |-> date, contributionCount |-> count]

\* What the API holds for the identities behind tokA and tokB, and what it
\* holds for tokA's identity after that user has pushed a commit.
AccountA ==
    [login |-> "alice", avatarUrl |-> "a.png",
     totalCommitContributions |-> 2, totalIssueContributions |-> 1,
     totalPullRequestReviewContributions |-> 0,
     days |-> <<Day(0, 1), Day(1, 0)>>,
     repos |-> <<Repo("alice/x", "history", 1, "Go", FALSE),
                 Repo("org/y", "noRef", 0, NoLanguage, TRUE)>>]

AccountAPushed ==
    [AccountA EXCEPT !.totalCommitContributions = 3,
                     !.days = <<Day(0, 1), Day(1, 1)>>,
                     !.repos = <<Repo("alice/x", "history", 2, "Go", FALSE),
                                 Repo("org/y", "noRef", 0, NoLanguage, TRUE)>>]

AccountB ==
    [login |-> "bob", avatarUrl |-> "b.png",
     totalCommitContributions |-> 0, totalIssueContributions |-> 0,
     totalPullRequestReviewContributions |-> 1,
     days |-> <<>>,
     repos |-> <<Repo("bob/z", "history", 0, "TS", FALSE)>>]

\* ---------------------------------------------------------------- rateLimit
\* minInterval - timeSinceLastCall when timeSinceLastCall < minInterval, else
\* no wait.
RateLimitDelay(t, last) ==
    IF t - last < minInterval THEN minInterval - (t - last) ELSE 0

\* ------------------------------------------------------------------ actions
\* Issuing a remote call: the invocation now awaits its response at `pc`.
Issue(rec, pc) == [rec EXCEPT !.pc = pc, !.nRemote = @ + 1]

\* rateLimit() has returned: rateLimiter.lastCall = Date.now(), and the first
\* remote call, octokit.users.getAuthenticated(), is issued.
AfterRateLimit(rec) == [Issue(rec, "auth1") EXCEPT !.startedAt = now]

\* Variant: accessToken === "".
IsFalsyOnlyEmpty(accessToken) == accessToken = ""
\* !accessToken
IsFalsy(accessToken) == accessToken \in FalsyTokens

\* getGitHubStats(accessToken), up to its first await.
Call(p, accessToken) ==
    /\ inv[p].pc = "idle"
    /\ called = p - 1
    /\ called' = p
    /\ LET rec == [inv[p] EXCEPT !.accessToken = accessToken, !.calledAt = now]
       IN IF IsFalsy(accessToken)
          THEN /\ inv' = [inv EXCEPT ![p] =
                     Finished(rec, "failed", NoReport, "No access token provided")]
               /\ UNCHANGED <<cache, lastCall, lastIssued>>
          ELSE LET got == CacheGet(cache, cacheKey(accessToken), now)
                   read == [rec EXCEPT !.cacheReads = @ + 1]
                   delay == RateLimitDelay(now, lastCall)
               IN /\ cache' = got.cache
                  /\ IF got.found
                     THEN /\ inv' = [inv EXCEPT ![p] =
                                Finished([read EXCEPT !.hit = TRUE], "done",
                                         got.value, "")]
                          /\ UNCHANGED <<lastCall, lastIssued>>
                     ELSE IF delay > 0
                     THEN /\ inv' = [inv EXCEPT ![p] =
                                [read EXCEPT !.pc = "rateLimit",
                                             !.wakeAt = now + delay]]
                          /\ UNCHANGED <<lastCall, lastIssued>>
                     ELSE /\ inv' = [inv EXCEPT ![p] = AfterRateLimit(read)]
                          /\ lastCall' = now
                          /\ lastIssued' = now
    /\ UNCHANGED <<now, ticks, tz, remote>>

\* Variant: rateLimit does not record the instant at which it wakes.
RateLimitWakeNotRecording(p) ==
    /\ inv[p].pc = "rateLimit"
    /\ now >= inv[p].wakeAt
    /\ inv' = [inv EXCEPT ![p] = AfterRateLimit(inv[p])]
    /\ lastIssued' = now
    /\ UNCHANGED <<now, ticks, tz, remote, cache, called, lastCall>>

\* The timer of rateLimit fires, at its deadline or later.
RateLimitWake(p) ==
    /\ inv[p].pc = "rateLimit"
    /\ now >= inv[p].wakeAt
    /\ lastCall' = now
    /\ inv' = [inv EXCEPT ![p] = AfterRateLimit(inv[p])]
    /\ lastIssued' = now
    /\ UNCHANGED <<now, ticks, tz, remote, cache, called>>

\* The first getAuthenticated() answers: its login goes into the text of the
\* contributions query, which is issued.
AuthForQueryOk(p) ==
    /\ inv[p].pc = "auth1"
    /\ inv' = [inv EXCEPT ![p] =
           [Issue(inv[p], "contrib") EXCEPT
               !.queryLogin = remote[inv[p].accessToken].login]]
    /\ lastIssued' = now
    /\ UNCHANGED <<now, ticks, tz, remote, cache, lastCall, called>>

\* The contributions query, user(login: queryLogin), answers, which it does
\* while that login exists; the second getAuthenticated() is issued.
ContributionsOk(p) ==
    /\ inv[p].pc = "contrib"
    /\ inv[p].queryLogin = remote[inv[p].accessToken].login
    /\ LET data == remote[inv[p].accessToken]
       IN inv' = [inv EXCEPT ![p] =
              [Issue(inv[p], "auth2") EXCEPT !.user =
                  [totalCommitContributions |-> data.totalCommitContributions,
                   totalIssueContributions |-> data.totalIssueContributions,
                   totalPullRequestReviewContributions |->
                       data.totalPullRequestReviewContributions,
                   days |-> data.days]]]
    /\ lastIssued' = now
    /\ UNCHANGED <<now, ticks, tz, remote, cache, lastCall, called>>

\* The second getAuthenticated() answers: getAllRepositories(graphqlWithAuth,
\* login) starts with no repositories and a null cursor, and requests a page.
AuthForListOk(p) ==
    /\ inv[p].pc = "auth2"
    /\ inv' = [inv EXCEPT ![p] =
           [Issue(inv[p], "page") EXCEPT
               !.login = remote[inv[p].accessToken].login,
               !.repositories = <<>>, !.hasNextPage = TRUE, !.cursor = 0]]
    /\ lastIssued' = now
    /\ UNCHANGED <<now, ticks, tz, remote, cache, lastCall, called>>

\* A page of the listing: the n nodes after the cursor, with its pageInfo.
\* The cursor is the number of nodes before the page; null is 0.
Page(repos, cursor, n) ==
    [nodes |-> SubSeq(repos, cursor + 1, cursor + n),
     hasNextPage |-> cursor + n < Len(repos),
     endCursor |-> cursor + n]

\* The sizes the API may give the page after the cursor.
PageSizes(repos, cursor) ==
    IF cursor >= Len(repos) THEN {0}
    ELSE {n \in 1..MaxPage : cursor + n <= Len(repos)}

\* Variant: repositories = user.repositories.nodes.
PushAssigning(repositories, nodes) == nodes
\* repositories.push(...user.repositories.nodes)
Push(repositories, nodes) == repositories \o nodes

\* Variant: the loop body runs once, whatever pageInfo.hasNextPage says.
PageOkOnce(p, n) ==
    /\ inv[p].pc = "page"
    /\ inv[p].login = remote[inv[p].accessToken].login
    /\ n \in PageSizes(remote[inv[p].accessToken].repos, inv[p].cursor)
    /\ LET page == Page(remote[inv[p].accessToken].repos, inv[p].cursor, n)
       IN inv' = [inv EXCEPT ![p] =
              Issue([@ EXCEPT !.repositories = Push(@, page.nodes),
                              !.hasNextPage = page.hasNextPage,
                              !.cursor = page.endCursor], "auth3")]
    /\ lastIssued' = now
    /\ UNCHANGED <<now, ticks, tz, remote, cache, lastCall, called>>

\* One turn of the loop of getAllRepositories: a page of user(login: login)
\* arrives, which it does while that login exists, and is pushed; either the
\* next page is requested, or the lister returns and the third
\* getAuthenticated() is issued.
PageOk(p, n) ==
    /\ inv[p].pc = "page"
    /\ inv[p].login = remote[inv[p].accessToken].login
    /\ n \in PageSizes(remote[inv[p].accessToken].repos, inv[p].cursor)
    /\ LET page == Page(remote[inv[p].accessToken].repos, inv[p].cursor, n)
           pushed == [inv[p] EXCEPT !.repositories = Push(@, page.nodes),
                                    !.hasNextPage = page.hasNextPage,
                                    !.cursor = page.endCursor]
       IN inv' = [inv EXCEPT ![p] =
              IF page.hasNextPage THEN Issue(pushed, "page")
              ELSE Issue(pushed, "auth3")]
    /\ lastIssued' = now
    /\ UNCHANGED <<now, ticks, tz, remote, cache, lastCall, called>>

\* The third getAuthenticated() answers (user.login); the fourth is issued.
AuthForLoginOk(p) ==
    /\ inv[p].pc = "auth3"
    /\ inv' = [inv EXCEPT ![p] =
           [Issue(inv[p], "auth4") EXCEPT
               !.resultLogin = remote[inv[p].accessToken].login]]
    /\ lastIssued' = now
    /\ UNCHANGED <<now, ticks, tz, remote, cache, lastCall, called>>

\* The fourth getAuthenticated() answers (user.avatarUrl): the result is
\* complete, cached and returned.
AuthForAvatarOk(p) ==
    /\ inv[p].pc = "auth4"
    /\ LET result == BuildReport(inv[p].user, inv[p].repositories, tz,
                                 inv[p].resultLogin,
                                 remote[inv[p].accessToken].avatarUrl)
       IN /\ cache' = CacheSet(cache, cacheKey(inv[p].accessToken), result, now, p)
          /\ inv' = [inv EXCEPT ![p] =
                 Finished([@ EXCEPT !.cacheWrites = @ + 1], "done", result, "")]
    /\ UNCHANGED <<now, ticks, tz, remote, lastCall, called, lastIssued>>

\* Variant: the catch block caches what the invocation has so far.
RemoteFailCachingPartial(p) ==
    /\ inv[p].pc \in AwaitingRemote
    /\ inv' = [inv EXCEPT ![p] = Finished(@, "failed", NoReport, "upstream")]
    /\ cache' = CacheSet(cache, cacheKey(inv[p].accessToken),
                         BuildReport(inv[p].user, inv[p].repositories, tz, "", ""),
                         now, p)
    /\ UNCHANGED <<now, ticks, tz, remote, lastCall, called, lastIssued>>

\* Variant: the failed call is issued once more, and fails again.
RemoteFailAfterRetry(p) ==
    /\ inv[p].pc \in AwaitingRemote
    /\ inv' = [inv EXCEPT ![p] =
           Finished([@ EXCEPT !.nRemote = @ + 1], "failed", NoReport, "upstream")]
    /\ UNCHANGED <<now, ticks, tz, remote, cache, lastCall, called, lastIssued>>

\* The remote call an invocation awaits fails: the catch block logs the
\* error and throws it again.
RemoteFail(p) ==
    /\ inv[p].pc \in AwaitingRemote
    /\ inv' = [inv EXCEPT ![p] = Finished(@, "failed", NoReport, "upstream")]
    /\ UNCHANGED <<now, ticks, tz, remote, cache, lastCall, called, lastIssued>>

\* Time passes.
Tick(d) ==
    /\ ticks < MaxTicks
    /\ ticks' = ticks + 1
    /\ now' = now + d
    /\ UNCHANGED <<tz, remote, cache, lastCall, called, inv, lastIssued>>

\* tokA's user pushes a commit.
RemoteChange ==
    /\ remote["tokA"] = AccountA
    /\ remote' = [remote EXCEPT !["tokA"] = AccountAPushed]
    /\ UNCHANGED <<now, ticks, tz, cache, lastCall, called, inv, lastIssued>>

\* tokA's user changes their login.
RemoteRename ==
    /\ remote["tokA"].login = "alice"
    /\ remote' = [remote EXCEPT !["tokA"].login = "alicia"]
    /\ UNCHANGED <<now, ticks, tz, cache, lastCall, called, inv, lastIssued>>

\* ------------------------------------------------------------ specification
\* The process starts long after the epoch: Date.now() - 0 >= minInterval.
Init ==
    /\ now = minInterval
    /\ ticks = 0
    /\ tz = "east"
    /\ remote = [t \in ValidTokens |-> IF t = "tokA" THEN AccountA ELSE AccountB]
    /\ cache = <<>>
    /\ lastCall = 0
    /\ called = 0
    /\ inv = [p \in Procs |-> NewInvocation]
    /\ lastIssued = 0

Next ==
    \/ \E p \in 1..NumCalls, t \in AccessTokens : Call(p, t)
    \/ \E p \in Procs : RateLimitWake(p)
    \/ \E p \in Procs : AuthForQueryOk(p)
    \/ \E p \in Procs : ContributionsOk(p)
    \/ \E p \in Procs : AuthForListOk(p)
    \/ \E p \in Procs, n \in 0..MaxPage : PageOk(p, n)
    \/ \E p \in Procs : AuthForLoginOk(p)
    \/ \E p \in Procs : AuthForAvatarOk(p)
    \/ \E p \in Procs : RemoteFail(p)
    \/ \E d \in {TickMs, CacheTTL} : Tick(d)
    \/ RemoteChange

Spec == Init /\ [][Next]_vars

\* The rate limiter under contention while the remote API is down: every
\* invocation's first remote call fails.
NextOutage ==
    \/ \E p \in 1..NumCallers, t \in AccessTokens : Call(p, t)
    \/ \E p \in Procs : RateLimitWake(p)
    \/ \E p \in Procs : RemoteFail(p)
    \/ Tick(TickMs)

SpecOutage == Init /\ [][NextOutage]_vars

\* Invocations for tokA while its user changes their login.
NextIdentity ==
    \/ \E p \in 1..NumCalls : Call(p, "tokA")
    \/ \E p \in Procs : RateLimitWake(p)
    \/ \E p \in Procs : AuthForQueryOk(p)
    \/ \E p \in Procs : ContributionsOk(p)
    \/ \E p \in Procs : AuthForListOk(p)
    \/ \E p \in Procs, n \in 0..MaxPage : PageOk(p, n)
    \/ \E p \in Procs : AuthForLoginOk(p)
    \/ \E p \in Procs : AuthForAvatarOk(p)
    \/ \E p \in Procs : RemoteFail(p)
    \/ Tick(TickMs)
    \/ RemoteRename

SpecIdentity == Init /\ [][NextIdentity]_vars

\* One invocation, whose remote calls all succeed, on every account within
\* the bounds: SpecRepos draws the repository list, SpecDays the calendar
\* and the time zone.
RepoNames == <<"o/r1", "o/r2", "o/r3", "o/r4", "o/r5">>
StartDates == {0, 4}

AccountOf(repos, days) ==
    [login |-> "alice", avatarUrl |-> "a.png",
     totalCommitContributions |-> 2, totalIssueContributions |-> 1,
     totalPullRequestReviewContributions |-> 0,
     days |-> days, repos |-> repos]

\* A repository's branch and language: any language with a history, and
\* none or one with a missing ref, target or history.
RepoShapes ==
    {bl \in Branches \X (Languages \cup {NoLanguage}) :
        bl[1].kind = "history" \/ bl[2] \in {NoLanguage, "Go"}}

InitProcess ==
    /\ now = minInterval
    /\ ticks = 0
    /\ cache = <<>>
    /\ lastCall = 0
    /\ called = 0
    /\ inv = [p \in Procs |-> NewInvocation]
    /\ lastIssued = 0

InitRepos ==
    /\ InitProcess
    /\ tz = "east"
    /\ \E n \in 0..MaxRepos :
          \E f \in [1..n -> RepoShapes] :
              remote = [t \in ValidTokens |->
                  IF t = "tokA"
                  THEN AccountOf(
                           [i \in 1..n |->
                               Repo(RepoNames[i], f[i][1].kind,
                                    f[i][1].totalCount, f[i][2], i % 2 = 0)],
                           <<>>)
                  ELSE AccountB]

InitDays ==
    /\ InitProcess
    /\ tz \in TimeZones
    /\ \E n \in 1..MaxDays, start \in StartDates :
          \E f \in [1..n -> DayCounts] :
              remote = [t \in ValidTokens |->
                  IF t = "tokA"
                  THEN AccountOf(<<>>, [i \in 1..n |-> Day(start + i - 1, f[i])])
                  ELSE AccountB]

NextAgg ==
    \/ Call(1, "tokA")
    \/ AuthForQueryOk(1)
    \/ ContributionsOk(1)
    \/ AuthForListOk(1)
    \/ \E n \in 0..MaxPage : PageOk(1, n)
    \/ AuthForLoginOk(1)
    \/ AuthForAvatarOk(1)

SpecRepos == InitRepos /\ [][NextAgg]_vars

SpecDays == InitDays /\ [][NextAgg]_vars

\* One invocation on every listing of repositories that have one commit, or
\* no default branch and no language, in which every page the lister
\* requests is answered.
PagingShapes ==
    {bl \in RepoShapes : bl[1].totalCount = 1 \/ (bl[1].kind = "noRef" /\ bl[2] = NoLanguage)}

InitPaging ==
    /\ InitProcess
    /\ tz = "east"
    /\ \E n \in 0..MaxRepos :
          \E f \in [1..n -> PagingShapes] :
              remote = [t \in ValidTokens |->
                  IF t = "tokA"
                  THEN AccountOf(
                           [i \in 1..n |->
                               Repo(RepoNames[i], f[i][1].kind,
                                    f[i][1].totalCount, f[i][2], i % 2 = 0)],
                           <<>>)
                  ELSE AccountB]

SpecPaging ==
    /\ InitPaging
    /\ [][NextAgg]_vars
    /\ WF_vars(\E n \in 0..MaxPage : PageOk(1, n))

\* ================================================================== claims
Entry(c) == cache[KeyIndex(cache, cacheKey(c))]

\* C1: a call of getGitHubStats(c) made while the cache holds c's entry, less
\* than the ttl after the call that stored it, returns that call's Report
\* itself and issues no remote call, then or later.
C1_CacheHitReturnsStoredReport ==
    [][\A q \in Procs : \A c \in ValidTokens :
          /\ (/\ inv[q].pc = "idle"
              /\ inv'[q].pc # "idle"
              /\ inv'[q].accessToken = c
              /\ HasKey(cache, cacheKey(c))
              /\ now - Entry(c).start < CacheTTL)
             => /\ inv'[q].pc = "done"
                /\ inv[Entry(c).by].pc = "done"
                /\ inv[Entry(c).by].accessToken = c
                /\ ~inv[Entry(c).by].hit
                /\ inv'[q].result = inv[Entry(c).by].result
                /\ inv'[q].result # NoReport
                /\ inv'[q].nRemote = 0
          /\ inv[q].hit => inv'[q].nRemote = 0]_vars

\* A second call is served from the cache some time after the first one
\* stored its Report, although the API would now answer differently.
C1_Witness ==
    \E q \in Procs :
        /\ inv[q].hit
        /\ inv[q].pc = "done"
        /\ inv[q].calledAt > minInterval
        /\ inv[q].result.totalCommits
               # remote[inv[q].accessToken].totalCommitContributions

\* C2: an invocation with an empty or absent credential has failed with the
\* missing-credential error in its very first step, having read and written
\* no cache entry and issued no remote call.
C2_MissingCredentialFailsAtOnce ==
    \A p \in Procs :
        (inv[p].pc # "idle" /\ inv[p].accessToken \in {"", "<undefined>", "<null>"})
            => /\ inv[p].pc = "failed"
               /\ inv[p].error = "No access token provided"
               /\ inv[p].result = NoReport
               /\ inv[p].cacheReads = 0
               /\ inv[p].cacheWrites = 0
               /\ inv[p].nRemote = 0

\* A null credential is rejected while the cache holds an entry.
C2_Witness ==
    \E p \in Procs :
        /\ inv[p].pc = "failed"
        /\ inv[p].accessToken = "<null>"
        /\ Len(cache) > 0

Started(p) == inv[p].nRemote > 0

\* C4: the instants at which any two invocations return from rateLimit, and
\* issue their first remote call, are at least minInterval apart.
C4_ThrottleSerializesCallers ==
    \A p, q \in Procs :
        (p # q /\ Started(p) /\ Started(q))
            => \/ inv[p].startedAt - inv[q].startedAt >= 1000
               \/ inv[q].startedAt - inv[p].startedAt >= 1000

\* C5: of two calls for the same credential made within 500 ms of each other
\* that both miss the cache, the later one issues its first remote call at
\* least 1000 ms after the earlier one issues its.
C5_SecondCallStartsAnIntervalLater ==
    \A p, q \in Procs :
        (/\ p < q
         /\ Started(p) /\ Started(q)
         /\ inv[p].accessToken = inv[q].accessToken
         /\ inv[q].calledAt - inv[p].calledAt <= 500)
            => inv[q].startedAt - inv[p].startedAt >= 1000

\* The account and the returned Report of a completed cache-miss invocation.
Returned(p) == inv[p].pc = "done" /\ ~inv[p].hit
Account(p) == remote[inv[p].accessToken]

\* C6: every returned Report's contributionsByDay has exactly the seven
\* entries Monday..Sunday in that order, each count >= 0, all of them 0 when
\* no day of the calendar has a positive count.
C6_SevenWeekdayBuckets ==
    \A p \in Procs : Returned(p) =>
        LET byDay == inv[p].result.contributionsByDay
            names == <<"Monday", "Tuesday", "Wednesday", "Thursday", "Friday",
                       "Saturday", "Sunday">>
        IN /\ Len(byDay) = 7
           /\ \A i \in 1..7 : byDay[i].day = names[i] /\ byDay[i].count >= 0
           /\ (\A d \in 1..Len(Account(p).days) :
                   Account(p).days[d].contributionCount <= 0)
                  => \A i \in 1..7 : byDay[i].count = 0

\* A Report whose calendar has active and inactive weekdays, one of which
\* occurs twice.
C6_Witness ==
    \E p \in Procs :
        /\ Returned(p)
        /\ Len(Account(p).days) = 8
        /\ \E i \in 1..7 : inv[p].result.contributionsByDay[i].count = 0
        /\ \E i \in 1..7 : inv[p].result.contributionsByDay[i].count = 4

\* C7: the percentages of a returned Report's languages sum to 100 whenever
\* some listed repository has a primary language, and the list is empty when
\* none has.
C7_PercentagesSumTo100 ==
    \A p \in Procs : Returned(p) =>
        LET langs == inv[p].result.languages
            repos == Account(p).repos
        IN IF \E i \in 1..Len(repos) : repos[i].primaryLanguage # NoLanguage
           THEN /\ langs # <<>>
                /\ \A i \in 1..Len(langs) : ~langs[i].percentage.nan
                /\ SumSeq([i \in 1..Len(langs) |-> langs[i].percentage.num])
                       = 100 * langs[1].percentage.den
           ELSE langs = <<>>

\* The position of the repository called `name` in the listing.
ListedAt(repos, name) == CHOOSE i \in 1..Len(repos) : repos[i].nameWithOwner = name

\* C8: a returned Report's repos are the listed repositories, each once, in
\* descending order of commits, those with equal commits in listing order.
C8_ReposStableDescending ==
    \A p \in Procs : Returned(p) =>
        LET out == inv[p].result.repos
            repos == Account(p).repos
        IN /\ Len(out) = Len(repos)
           /\ {out[i].name : i \in 1..Len(out)}
                  = {repos[i].nameWithOwner : i \in 1..Len(repos)}
           /\ \A i, j \in 1..Len(out) :
                  i < j => /\ out[i].commits >= out[j].commits
                           /\ out[i].commits = out[j].commits
                                  => ListedAt(repos, out[i].name)
                                         < ListedAt(repos, out[j].name)

\* Three repositories of which the last listed has the most commits and the
\* other two have equally many.
C8_Witness ==
    \E p \in Procs :
        /\ Returned(p)
        /\ Len(inv[p].result.repos) = 3
        /\ inv[p].result.repos[1].name = "o/r3"
        /\ inv[p].result.repos[2].name = "o/r1"
        /\ inv[p].result.repos[2].commits = inv[p].result.repos[3].commits
        /\ inv[p].result.repos[2].commits > 0

\* C9: however the API splits the listing into pages, getAllRepositories
\* has accumulated the listing up to its cursor, in order, and returns the
\* whole listing; the Report counts all of it.
C9_ListingIndependentOfPaging ==
    \A p \in Procs :
        /\ inv[p].pc = "page"
               => inv[p].repositories = SubSeq(Account(p).repos, 1, inv[p].cursor)
        /\ inv[p].pc \in {"auth3", "auth4"}
               => inv[p].repositories = Account(p).repos
        /\ Returned(p) => inv[p].result.totalRepos = Len(Account(p).repos)

\* The lister has returned three repositories received on three pages.
C9_Witness ==
    \E p \in Procs :
        /\ inv[p].pc = "auth3"
        /\ Len(inv[p].repositories) = 3
        /\ inv[p].nRemote = 7

\* C10: in a returned Report every repository's commits and contributions
\* both equal its default-branch history total, and both are 0 when the
\* default branch, its target or its history is absent.
C10_CommitsEqualContributions ==
    \A p \in Procs : Returned(p) =>
        LET out == inv[p].result.repos
            repos == Account(p).repos
        IN \A i \in 1..Len(out) :
              LET branch == repos[ListedAt(repos, out[i].name)].defaultBranchRef
              IN /\ out[i].commits = out[i].contributions
                 /\ out[i].commits =
                        IF branch.kind \in {"noRef", "noTarget", "noHistory"}
                        THEN 0 ELSE branch.totalCount

\* A Report is returned for repositories without a default branch, without
\* a target, without a history, and with a history of two commits.
C10_Witness ==
    \E p \in Procs :
        /\ Returned(p)
        /\ Len(Account(p).repos) = 3
        /\ Account(p).repos[1].defaultBranchRef.kind = "noRef"
        /\ Account(p).repos[2].defaultBranchRef.kind = "noTarget"
        /\ Account(p).repos[3].defaultBranchRef.totalCount = 2
        /\ inv[p].result.repos[1].contributions = 2

\* C11: every remote call, of whichever invocation and of whichever kind,
\* starts at least 1000 ms after the remote call before it.
C11_RemoteCallsAnIntervalApart ==
    [][\A p \in Procs :
          inv'[p].nRemote > inv[p].nRemote => now' - lastIssued >= 1000]_vars

\* C12: a cache-miss invocation resolves the identity once, never a second
\* time, and the login in its contributions query, the login given to the
\* lister and the login of its Report are the same.
C12_OneIdentityResolution ==
    \A p \in Procs :
        /\ inv[p].pc \notin {"auth2", "auth3", "auth4"}
        /\ inv[p].pc \in {"page", "auth3"} => inv[p].login = inv[p].queryLogin
        /\ inv[p].pc = "auth4" => /\ inv[p].login = inv[p].queryLogin
                                  /\ inv[p].resultLogin = inv[p].login

\* C13: getAllRepositories requests its first page with a null cursor; when
\* a page arrives it has made one request for it, and it requests one more
\* page, with that page's endCursor, exactly when the page says hasNextPage,
\* and returns otherwise; and it returns, the listing being finite.
C13_ListerFollowsCursor ==
    /\ [][\A p \in Procs :
            /\ (inv[p].pc = "auth2" /\ inv'[p].pc = "page")
                   => inv'[p].cursor = 0 /\ inv'[p].nRemote = inv[p].nRemote + 1
            /\ (inv[p].pc = "page" /\ inv'[p] # inv[p])
                   => \E n \in 0..MaxPage :
                         LET page == Page(Account(p).repos, inv[p].cursor, n)
                         IN /\ inv'[p].repositories
                                   = inv[p].repositories \o page.nodes
                            /\ inv'[p].nRemote = inv[p].nRemote + 1
                            /\ IF page.hasNextPage
                               THEN /\ inv'[p].pc = "page"
                                    /\ inv'[p].cursor = page.endCursor
                                    /\ inv'[p].cursor > inv[p].cursor
                               ELSE inv'[p].pc = "auth3"]_vars
    /\ \A p \in Procs : (inv[p].pc = "page") ~> (inv[p].pc = "auth3")

\* The lister has returned three repositories received on two pages.
C13_Witness ==
    \E p \in Procs :
        /\ inv[p].pc = "auth3"
        /\ Len(inv[p].repositories) = 3
        /\ inv[p].nRemote = 6

\* C14: the step in which a remote call of an invocation fails issues no
\* remote call and gives no Report, and the invocation takes no step after
\* it: it issues no call again, and nothing it had listed is returned.
C14_NoRetryNoPartialResult ==
    [][\A p \in Procs :
          /\ (inv[p].pc \in AwaitingRemote /\ inv'[p].pc = "failed")
                 => /\ inv'[p].nRemote = inv[p].nRemote
                    /\ inv'[p].result = NoReport
                    /\ lastIssued' = lastIssued
          /\ inv[p].pc = "failed"
                 => /\ inv'[p] = inv[p]
                    /\ \A i \in 1..Len(cache') : cache'[i].by # p]_vars

\* An invocation for tokA has failed at its fifth remote call, a second
\* listing page or the identity resolution after the listing, and time has
\* passed since.
C14_Witness ==
    \E p \in Procs :
        /\ inv[p].pc = "failed"
        /\ inv[p].accessToken = "tokA"
        /\ inv[p].nRemote = 5
        /\ now > inv[p].startedAt

\* C15: in every returned Report the count of each weekday's bucket is the
\* sum of the positive counts of the calendar's days whose date falls on
\* that weekday, in whatever time zone the process runs; so the seven
\* counts sum to the sum of the positive daily counts.
C15_CountsGoToTheDatesWeekday ==
    \A p \in Procs : Returned(p) =>
        LET byDay == inv[p].result.contributionsByDay
            days == Account(p).days
            Positive(d) == IF days[d].contributionCount > 0
                           THEN days[d].contributionCount ELSE 0
        IN /\ \A i \in 1..7 :
                  byDay[i].count =
                      SumSeq([d \in 1..Len(days) |->
                                 IF ((days[d].date + 3) % 7) + 1 = i
                                 THEN Positive(d) ELSE 0])
           /\ SumSeq([i \in 1..7 |-> byDay[i].count])
                  = SumSeq([d \in 1..Len(days) |-> Positive(d)])

\* The commits of the listed repositories whose primary language is in
\* `langs`: the totals of their default-branch histories.
CommitsIn(repos, langs) ==
    SumSeq([i \in 1..Len(repos) |->
               IF /\ repos[i].primaryLanguage \in langs
                  /\ repos[i].defaultBranchRef.kind = "history"
               THEN repos[i].defaultBranchRef.totalCount ELSE 0])

\* C16: a returned Report's languages has one entry for each primary
\* language among the listed repositories and no other; an entry's
\* percentage is 100 times the commits of its language's repositories over
\* the commits of all repositories that have a language; the entries are in
\* descending order of percentage.
C16_LanguageShares ==
    \A p \in Procs : Returned(p) =>
        LET langs == inv[p].result.languages
            repos == Account(p).repos
            total == CommitsIn(repos, Languages)
        IN /\ {langs[i].name : i \in 1..Len(langs)}
                  = {repos[i].primaryLanguage : i \in 1..Len(repos)} \ {NoLanguage}
           /\ \A i, j \in 1..Len(langs) : i # j => langs[i].name # langs[j].name
           /\ \A i \in 1..Len(langs) :
                  /\ ~langs[i].percentage.nan
                  /\ langs[i].percentage.num * total
                         = 100 * CommitsIn(repos, {langs[i].name})
                               * langs[i].percentage.den
           /\ \A i, j \in 1..Len(langs) :
                  i < j => langs[i].percentage.num * langs[j].percentage.den
                               >= langs[j].percentage.num * langs[i].percentage.den

ReportOf(report, c) ==
    /\ report.kind = "report"
    /\ report.user.login = remote[c].login
    /\ report.user.avatarUrl = remote[c].avatarUrl
    /\ report.totalRepos = Len(remote[c].repos)
    /\ {report.repos[i].name : i \in 1..Len(report.repos)}
           = {remote[c].repos[i].nameWithOwner : i \in 1..Len(remote[c].repos)}

\* C18: every cache entry is under the key of the credential its writer was
\* called with, no two under one key, and holds the Report which that
\* invocation, having made all its remote calls with success, returned: a
\* complete Report of that credential's data alone. Every invocation that
\* has returned has returned such a Report of its own credential, and a
\* failed or unfinished one has returned none.
C18_CacheHoldsOwnCompleteReports ==
    /\ \A i \in 1..Len(cache) :
           LET q == cache[i].by
               c == inv[q].accessToken
           IN /\ c \in ValidTokens
              /\ cache[i].key = <<"stats-", c>>
              /\ inv[q].pc = "done" /\ ~inv[q].hit
              /\ inv[q].nRemote >= 6
              /\ inv[q].result = cache[i].value
              /\ ReportOf(cache[i].value, c)
              /\ \A j \in 1..Len(cache) : cache[j].key = cache[i].key => j = i
    /\ \A p \in Procs :
           IF inv[p].pc = "done"
           THEN ReportOf(inv[p].result, inv[p].accessToken)
           ELSE inv[p].result = NoReport

\* The cache holds the Reports of two invocations with different
\* credentials, of which the one called later wrote first.
C18_Witness ==
    /\ Len(cache) = 2
    /\ cache[1].by > cache[2].by
    /\ cache[1].key # cache[2].key

InFlight(p) == inv[p].pc \in AwaitingRemote \cup {"rateLimit"}

\* C19: a call for a credential made while another invocation for it is in
\* flight and the cache has no entry for it misses the cache and goes to
\* the throttle, leaving the other as it is; each invocation that completes
\* has issued a full set of remote calls of its own, and its Report is then
\* the cache's entry for the credential, whatever entry there was.
C19_InFlightFetchesNotShared ==
    [][\A p, q \in Procs :
          LET c == inv'[q].accessToken
          IN /\ (/\ p # q
                  /\ inv[q].pc = "idle" /\ inv'[q].pc # "idle"
                  /\ c \in ValidTokens
                  /\ InFlight(p) /\ inv[p].accessToken = c
                  /\ ~HasKey(cache, <<"stats-", c>>))
                 => /\ inv'[q].pc \in {"rateLimit", "auth1"}
                    /\ ~inv'[q].hit
                    /\ inv'[q].nRemote <= 1
                    /\ inv'[p] = inv[p]
             /\ (inv[q].pc = "auth4" /\ inv'[q].pc = "done")
                 => /\ inv'[q].nRemote >= 6
                    /\ cache'[Len(cache')].key = <<"stats-", c>>
                    /\ cache'[Len(cache')].value = inv'[q].result
                    /\ cache'[Len(cache')].by = q
                    /\ \A i \in 1..(Len(cache') - 1) :
                           cache'[i].key # <<"stats-", c>>]_vars

\* Two invocations for one credential, the second called before the first
\* had written the cache, have both completed with different Reports, and
\* the cache holds the Report of the first, which wrote last.
C19_Witness ==
    /\ Returned(1) /\ Returned(2)
    /\ inv[1].accessToken = inv[2].accessToken
    /\ now - inv[1].calledAt < CacheTTL
    /\ inv[1].result # inv[2].result
    /\ Entry(inv[1].accessToken).value = inv[1].result

\* C20: rateLimiter.lastCall never decreases; a step changes it only if it
\* is the step in which an invocation that missed the cache issues its
\* first remote call, and that step sets it to the current instant; no
\* later step of that invocation, and no step of an invocation served from
\* the cache or rejected for a missing credential, changes it.
C20_OnlyAMissMovesLastCall ==
    [][/\ lastCall' >= lastCall
       /\ lastCall' # lastCall
              => \E p \in Procs :
                    /\ inv[p].nRemote = 0 /\ inv'[p].nRemote = 1
                    /\ inv'[p].accessToken \in ValidTokens
                    /\ inv'[p].cacheReads = 1 /\ ~inv'[p].hit
       /\ \A p \in Procs :
              /\ (inv[p].nRemote = 0 /\ inv'[p].nRemote = 1)
                     => lastCall' = now' /\ inv'[p].startedAt = lastCall'
              /\ (inv'[p] # inv[p] /\ inv[p].nRemote >= 1)
                     => lastCall' = lastCall
              /\ (inv'[p] # inv[p]
                  /\ (inv'[p].hit \/ inv'[p].accessToken \notin ValidTokens))
                     => lastCall' = lastCall]_vars

\* A call served from the cache, and made after the throttle would have let
\* a remote call through, has left lastCall at the instant of the first
\* remote call of the invocation that filled the cache.
C20_Witness ==
    /\ inv[2].hit
    /\ ~inv[1].hit
    /\ inv[2].calledAt >= inv[1].startedAt + minInterval
    /\ lastCall = inv[1].startedAt

====
